---- MODULE Spec2Model ----
(***************************************************************************)
(* A model of the tool-dispatch / query-resolution loop of app.py          *)
(* (process_query and the four tools it dispatches to), of the module-     *)
(* level start-up code that builds USER_PROFILE and tools_dict, and of the *)
(* fact store the tools read and write.                                    *)
(*                                                                         *)
(* Python strings are modelled as sequences of tokens.  A token is either  *)
(* a single character that the code inspects (" ", "|", a digit, ".", "-") *)
(* or an atom that stands for a run of characters the code never looks     *)
(* into ("Squat", "log_gym_set", "ACTION: TOOL_CALL", a literal of an      *)
(* f-string).  str.strip, str.split, str.startswith, str.replace, int(),   *)
(* float() and the f-string formatting of numbers are computed on these    *)
(* sequences the way Python computes them on characters.                   *)
(***************************************************************************)
EXTENDS Integers, Sequences, FiniteSets, TLC

\* ------------------------------------------------------------------ bounds
\* Number of process_query calls explored in one run.
MaxQueries == 2
\* The inputs submitted to the chat handler in one session.
MaxInputs == 2
\* The links of one Polar transaction.
MaxLinks == 2
\* The pages the Oura server holds for one period, and the records of a page.
MaxPages == 3
MaxRecords == 2
\* date.today() of the run, as a day number of IsoTable.
Today == 8

\* ------------------------------------------------------- string primitives
SP == " "
BAR == "|"
TOOL_CALL == "ACTION: TOOL_CALL"
DIRECT_ANSWER == "ACTION: DIRECT_ANSWER"

\* s[from..] (1-based), the empty string when from > Len(s).
Drop(s, from) == IF from > Len(s) THEN <<>> ELSE SubSeq(s, from, Len(s))

\* str.startswith(p)
StartsWith(s, p) == Len(s) >= Len(p) /\ SubSeq(s, 1, Len(p)) = p

RECURSIVE LStrip(_)
LStrip(s) == IF s # <<>> /\ Head(s) = SP THEN LStrip(Tail(s)) ELSE s

RECURSIVE RStrip(_)
RStrip(s) ==
  IF s # <<>> /\ s[Len(s)] = SP THEN RStrip(SubSeq(s, 1, Len(s) - 1)) ELSE s

\* str.strip()
Strip(s) == RStrip(LStrip(s))

\* str.split("|"): always at least one part; n delimiters give n + 1 parts.
RECURSIVE SplitFrom(_, _, _)
SplitFrom(s, i, cur) ==
  IF i > Len(s) THEN <<cur>>
  ELSE IF s[i] = BAR THEN <<cur>> \o SplitFrom(s, i + 1, <<>>)
  ELSE SplitFrom(s, i + 1, Append(cur, s[i]))

Split(s) == SplitFrom(s, 1, <<>>)

\* str.replace(old, ""): every non-overlapping occurrence, left to right.
RECURSIVE RemoveAll(_, _)
RemoveAll(s, old) ==
  IF s = <<>> THEN <<>>
  ELSE IF StartsWith(s, old) THEN RemoveAll(Drop(s, Len(old) + 1), old)
  ELSE <<Head(s)>> \o RemoveAll(Tail(s), old)

\* sub in s
Contains(s, sub) ==
  \E i \in 1..(Len(s) - Len(sub) + 1) : SubSeq(s, i, i + Len(sub) - 1) = sub

\* ------------------------------------------------------------ Python values
\* A positional argument of a tool: a str, a float (n in tenths) or an int.
PyStr(s) == [t |-> "str", s |-> s, n |-> 0]
PyFloat(n) == [t |-> "float", s |-> <<>>, n |-> n]
PyInt(n) == [t |-> "int", s |-> <<>>, n |-> n]

Digits == <<"0", "1", "2", "3", "4", "5", "6", "7", "8", "9">>
IsDigit(c) == \E d \in 1..10 : Digits[d] = c
DigitVal(c) == (CHOOSE d \in 1..10 : Digits[d] = c) - 1

RECURSIVE DigitsVal(_, _)
DigitsVal(s, acc) ==
  IF s = <<>> THEN acc ELSE DigitsVal(Tail(s), 10 * acc + DigitVal(Head(s)))

AllDigits(s) == s # <<>> /\ \A i \in 1..Len(s) : IsDigit(s[i])

Unsigned(s) == IF s # <<>> /\ Head(s) \in {"-", "+"} THEN Tail(s) ELSE s
Sign(s) == IF s # <<>> /\ Head(s) = "-" THEN -1 ELSE 1

\* int(s) of an already stripped str: an optional sign and decimal digits.
IntOk(s) == AllDigits(Unsigned(s))
IntVal(s) == Sign(s) * DigitsVal(Unsigned(s), 0)

\* float(s) of an already stripped str: an optional sign, digits, and at most
\* one "." with digits on at least one side.  The value is kept in tenths, so
\* the literals of the model carry at most one fractional digit.
DotAt(s) == CHOOSE i \in 1..Len(s) : s[i] = "."
HasDot(s) == \E i \in 1..Len(s) : s[i] = "."
Whole(s) == IF HasDot(s) THEN SubSeq(s, 1, DotAt(s) - 1) ELSE s
Frac(s) == IF HasDot(s) THEN Drop(s, DotAt(s) + 1) ELSE <<>>
FloatOk(s) ==
  LET u == Unsigned(s)
  IN  /\ \A i \in 1..Len(Whole(u)) : IsDigit(Whole(u)[i])
      /\ \A i \in 1..Len(Frac(u)) : IsDigit(Frac(u)[i])
      /\ Len(Whole(u)) + Len(Frac(u)) >= 1
      /\ Len(Frac(u)) <= 1
FloatVal(s) ==
  LET u == Unsigned(s)
  IN  Sign(s) * (10 * DigitsVal(Whole(u), 0) + DigitsVal(Frac(u), 0))

\* str(n) of a non-negative int
RECURSIVE NatStr(_)
NatStr(n) == IF n < 10 THEN <<Digits[n + 1]>> ELSE Append(NatStr(n \div 10), Digits[(n % 10) + 1])

\* f"{n}" of an int
IntStr(n) == IF n < 0 THEN <<"-">> \o NatStr(-n) ELSE NatStr(n)

\* f"{x}" of a float held in tenths: repr gives "100.0", "80.5", "-5.0".
FloatStr(x) ==
  LET a == IF x < 0 THEN -x ELSE x
  IN  (IF x < 0 THEN <<"-">> ELSE <<>>) \o NatStr(a \div 10) \o <<".">> \o NatStr(a % 10)

\* f"{n:,}" of an int: groups of three digits separated by ",".
RECURSIVE Grouped(_)
Grouped(n) ==
  IF n < 1000 THEN NatStr(n)
  ELSE LET r == n % 1000
           pad == IF r < 10 THEN <<"0", "0">> ELSE IF r < 100 THEN <<"0">> ELSE <<>>
       IN  Grouped(n \div 1000) \o <<",">> \o pad \o NatStr(r)

CommaStr(n) == IF n < 0 THEN <<"-">> \o Grouped(-n) ELSE Grouped(n)

\* f"{v}" of a positional argument
PyFormat(v) ==
  IF v.t = "str" THEN v.s ELSE IF v.t = "float" THEN FloatStr(v.n) ELSE IntStr(v.n)

\* ------------------------------------------------------------------- dates
\* The ISO dates of the model; a date is its index in this table.
IsoTable == <<"2025-10-01", "2025-10-02", "2025-10-03", "2025-10-04", "2025-10-05", "2025-10-06",
              "2025-10-07", "2025-10-08", "2025-10-09", "2025-10-10", "2025-10-11", "2025-10-12">>

\* date.fromisoformat(s): succeeds exactly on the ISO dates.
IsoOk(s) == Len(s) = 1 /\ \E d \in 1..Len(IsoTable) : IsoTable[d] = s[1]
FromIso(s) == CHOOSE d \in 1..Len(IsoTable) : IsoTable[d] = s[1]

\* date.isoformat()
IsoFormat(d) == <<IsoTable[d]>>

\* -------------------------------------------------------------- fact store
\* A nullable column holds <<>> (null, Python None) or <<v>>.
Null == <<>>
Some(v) == <<v>>

\* f"{x}" of a nullable column read with record.get(key, 'N/A'): the key is
\* always present in a selected row, so a null prints as "None".
OptStr(x) == IF x = Null THEN <<"None">> ELSE IntStr(x[1])

BENCH == <<"Bench", SP, "Press">>
SQUAT == <<"Squat">>

EmptyStore == [sleep |-> {}, activity |-> {}, workouts |-> <<>>]

\* Rows as fetch_oura_data.py upserts them (one row per day, every metric
\* nullable) and as log_gym_set inserts them.
SampleStore ==
  [sleep |->
     {[day |-> 8, score |-> Some(70), total_sleep_duration |-> Some(25200), efficiency |-> Some(88)],
      [day |-> 7, score |-> Some(82), total_sleep_duration |-> Some(27000), efficiency |-> Some(91)],
      [day |-> 5, score |-> Some(74), total_sleep_duration |-> Some(28800), efficiency |-> Some(90)],
      [day |-> 4, score |-> Some(65), total_sleep_duration |-> Null, efficiency |-> Null]},
   activity |->
     {[day |-> 7, steps |-> Some(12345), active_calories |-> Some(450), score |-> Some(77)],
      [day |-> 4, steps |-> Null, active_calories |-> Null, score |-> Null]},
   workouts |->
     <<[workout_date |-> 5, exercise_name |-> BENCH, weight_kg |-> 1000, repetitions |-> 4, sets |-> 1],
       [workout_date |-> 6, exercise_name |-> BENCH, weight_kg |-> 800, repetitions |-> 5, sets |-> 1],
       [workout_date |-> 6, exercise_name |-> SQUAT, weight_kg |-> 1100, repetitions |-> 2, sets |-> 1],
       [workout_date |-> 7, exercise_name |-> SQUAT, weight_kg |-> 900, repetitions |-> 6, sets |-> 1],
       [workout_date |-> 7, exercise_name |-> BENCH, weight_kg |-> 1000, repetitions |-> 3, sets |-> 1]>>]

InitStores == {EmptyStore, SampleStore}

\* .order('day', desc=True) over rows with distinct days
RECURSIVE DayDesc(_)
DayDesc(rows) ==
  IF rows = {} THEN <<>>
  ELSE LET top == CHOOSE r \in rows : \A q \in rows : q.day <= r.day
       IN  <<top>> \o DayDesc(rows \ {top})

\* A range filter that leaves out the day of its lower bound (a variant of
\* InWindow).
InWindowAfter(rows, lo, hi) == {r \in rows : lo < r.day /\ r.day <= hi}

\* .gte(col, lo).lte(col, hi)
InWindow(rows, lo, hi) == {r \in rows : lo <= r.day /\ r.day <= hi}

\* The newest-first orders of the rows ws[i], i in idx: the next row is any
\* of the rows of the latest date left.
RECURSIVE OrdersOf(_, _)
OrdersOf(ws, idx) ==
  IF idx = {} THEN {<<>>}
  ELSE LET newest == {i \in idx : \A j \in idx : ws[j].workout_date <= ws[i].workout_date}
       IN  UNION {{<<ws[i]>> \o rest : rest \in OrdersOf(ws, idx \ {i})} : i \in newest}

\* The orders in which the store may return the workouts of [lo, hi] under
\* .order('workout_date', desc=True): rows of one date come in any order.
WorkoutOrders(ws, lo, hi) ==
  OrdersOf(ws, {i \in 1..Len(ws) : lo <= ws[i].workout_date /\ ws[i].workout_date <= hi})

\* ------------------------------------------------------- calls and outcomes
\* What a query does to its collaborators, in order.
\* ok tells whether the collaborator answered (TRUE) or the call raised.
EvInvoke(name, args) ==
  [op |-> "invoke", name |-> name, args |-> args, lo |-> 0, hi |-> 0, ok |-> TRUE]
EvSelect(table, lo, hi, ok) ==
  [op |-> "select", name |-> table, args |-> <<>>, lo |-> lo, hi |-> hi, ok |-> ok]
EvInsert(table, args, ok) ==
  [op |-> "insert", name |-> table, args |-> args, lo |-> 0, hi |-> 0, ok |-> ok]
EvLlm(stage, prompt, ok) ==
  [op |-> "llm", name |-> stage, args |-> <<PyStr(prompt)>>, lo |-> 0, hi |-> 0, ok |-> ok]

\* The outcome of a call: a returned str or a raised exception (exc is its
\* str(e)), the collaborator calls it made and the store it leaves.
Ret(result, events, st) ==
  [raised |-> FALSE, exc |-> <<>>, result |-> result, events |-> events, store |-> st]
Raise(exc, events, st) ==
  [raised |-> TRUE, exc |-> exc, result |-> <<>>, events |-> events, store |-> st]

StoreDown == <<"store unavailable">>
BadIso == <<"Invalid isoformat string">>

\* --------------------------------------------------------------------- tools
\* .limit(7) of get_oura_sleep_score
SleepLimit == 7
\* timedelta(days=3) of get_readiness_report
DefaultWindowDays == 3

SLEEP_TOOL == "get_oura_sleep_score"
STEPS_TOOL == "get_oura_activity_steps"
LOG_TOOL == "log_gym_set"
REPORT_TOOL == "get_readiness_report"

Limit(rows, n) == IF Len(rows) <= n THEN rows ELSE SubSeq(rows, 1, n)

\* get_oura_sleep_score(day).  The query is not filtered by the day; it reads
\* the most recent rows.  Only 'day, score' are selected, so the duration is
\* absent and the efficiency prints its default.  The empty branch formats the
\* undefined name summary_date, which raises inside the try.
SleepScoreOutcomes(day, st) ==
  LET ev0 == <<EvInvoke(SLEEP_TOOL, <<day>>)>>
      ev1 == Append(ev0, EvSelect("oura_sleep", 0, 0, TRUE))
      down == Append(ev0, EvSelect("oura_sleep", 0, 0, FALSE))
      err(e) == <<"Error while fetching sleep data: ">> \o e
      data == Limit(DayDesc(st.sleep), SleepLimit)
  IN  IF day.t # "str" \/ ~IsoOk(day.s) THEN {Ret(err(BadIso), ev0, st)}
      ELSE {Ret(err(StoreDown), down, st),
            IF data # <<>>
            THEN Ret(<<"Sleep data for ">> \o day.s \o <<":", "\n- Score: ">>
                     \o OptStr(data[1].score) \o <<"\n- Efficiency: ", "N/A", "%">>, ev1, st)
            ELSE Ret(err(<<"name 'summary_date' is not defined">>), ev1, st)}

\* get_oura_activity_steps(day)
StepsOutcomes(day, st) ==
  LET ev0 == <<EvInvoke(STEPS_TOOL, <<day>>)>>
      err(e) == <<"Error while fetching activity data: ">> \o e
      d == FromIso(day.s)
      ev1 == Append(ev0, EvSelect("oura_activity", d, d, TRUE))
      down == Append(ev0, EvSelect("oura_activity", d, d, FALSE))
      data == DayDesc(InWindow(st.activity, d, d))
  IN  IF day.t # "str" \/ ~IsoOk(day.s) THEN {Ret(err(BadIso), ev0, st)}
      ELSE {Ret(err(StoreDown), down, st),
            IF data # <<>>
            THEN IF data[1].steps = Null
                 THEN Ret(err(<<"unsupported format string passed to NoneType.__format__">>), ev1, st)
                 ELSE Ret(<<"Activity data for ">> \o day.s \o <<":", "\n- Steps: ">>
                          \o CommaStr(data[1].steps[1]) \o <<"\n- Active calories: ">>
                          \o OptStr(data[1].active_calories) \o <<"\n- Activity score: ">>
                          \o OptStr(data[1].score), ev1, st)
            ELSE Ret(<<"No activity data found for ">> \o day.s \o <<".">>, ev1, st)}

\* bool(x)
Truthy(x) == IF x.t = "str" THEN x.s # <<>> ELSE x.n # 0

\* A guard that coerces its operands before comparing them, so that numeric
\* text passes (a variant of Validate).
ValidateCoercing(exercise, weight, reps, sets) ==
  LET num(x) == IF x.t # "str" THEN x.n ELSE IF FloatOk(x.s) THEN FloatVal(x.s) ELSE 0
  IN  IF Truthy(exercise) /\ num(weight) > 0 /\ num(reps) > 0 /\ num(sets) > 0
      THEN "ok" ELSE "invalid"

\* A guard that looks at the exercise name and the weight only (a variant of
\* Validate).
ValidateWeightOnly(exercise, weight, reps, sets) ==
  IF ~Truthy(exercise) THEN "invalid"
  ELSE IF weight.t = "str" THEN "typeerror"
  ELSE IF ~(weight.n > 0) THEN "invalid"
  ELSE "ok"

\* The guard of log_gym_set, evaluated left to right with short circuit:
\* exercise and weight > 0 and reps > 0 and sets > 0.  Ordering a str against
\* the int 0 raises TypeError.
Validate(exercise, weight, reps, sets) ==
  IF ~Truthy(exercise) THEN "invalid"
  ELSE IF weight.t = "str" THEN "typeerror"
  ELSE IF ~(weight.n > 0) THEN "invalid"
  ELSE IF reps.t = "str" THEN "typeerror"
  ELSE IF ~(reps.n > 0) THEN "invalid"
  ELSE IF sets.t = "str" THEN "typeerror"
  ELSE IF ~(sets.n > 0) THEN "invalid"
  ELSE "ok"

\* The row log_gym_set inserts into manual_workouts.
WorkoutRow(a) ==
  [workout_date |-> FromIso(a[1].s), exercise_name |-> a[2].s,
   weight_kg |-> IF a[3].t = "int" THEN 10 * a[3].n ELSE a[3].n,
   repetitions |-> a[4].n, sets |-> a[5].n]

\* log_gym_set(date_str, exercise, weight, reps, sets)
LogGymSetOutcomes(a, st) ==
  LET ev0 == <<EvInvoke(LOG_TOOL, a)>>
      ev1 == Append(ev0, EvInsert("manual_workouts", a, TRUE))
      bad == Append(ev0, EvInsert("manual_workouts", a, FALSE))
      internal == <<"An internal error occurred while trying to log the workout.">>
      v == Validate(a[2], a[3], a[4], a[5])
  IN  IF a[1].t # "str" \/ ~IsoOk(a[1].s) THEN {Ret(internal, ev0, st)}
      ELSE IF v = "typeerror" THEN {Ret(internal, ev0, st)}
      ELSE IF v = "invalid"
      THEN {Ret(<<"Error: Missing or invalid workout parameters. Please check exercise name, weight, reps, and set number.">>,
                ev0, st)}
      ELSE {Ret(<<"Successfully logged Set ">> \o PyFormat(a[5]) \o <<" of ">> \o PyFormat(a[2])
                \o <<" (">> \o PyFormat(a[3]) \o <<"kg x ">> \o PyFormat(a[4])
                \o <<" reps) for ">> \o a[1].s \o <<".">>,
                ev1, [st EXCEPT !.workouts = Append(@, WorkoutRow(a))]),
            Ret(<<"Error: Failed to insert set. Details: ", "insert rejected">>, bad, st),
            Ret(internal, bad, st)}

\* A window that discards both supplied dates when they are out of order (a
\* variant of Window).
WindowValidated(args) ==
  LET start_date == IF Len(args) >= 1 THEN args[1].s ELSE <<>>
      end_date == IF Len(args) >= 2 THEN args[2].s ELSE <<>>
      end == IF end_date # <<>> /\ IsoOk(end_date) THEN FromIso(end_date) ELSE Today
      start == IF start_date # <<>> /\ IsoOk(start_date)
               THEN FromIso(start_date) ELSE end - DefaultWindowDays
  IN  IF start <= end THEN [start |-> start, end |-> end]
      ELSE [start |-> Today - DefaultWindowDays, end |-> Today]

\* A window that falls back to [today - 3, today] as a whole as soon as one
\* of the two dates is missing or does not parse (a variant of Window).
WindowAllOrDefault(args) ==
  LET start_date == IF Len(args) >= 1 THEN args[1].s ELSE <<>>
      end_date == IF Len(args) >= 2 THEN args[2].s ELSE <<>>
  IN  IF start_date # <<>> /\ IsoOk(start_date) /\ end_date # <<>> /\ IsoOk(end_date)
      THEN [start |-> FromIso(start_date), end |-> FromIso(end_date)]
      ELSE [start |-> Today - DefaultWindowDays, end |-> Today]

\* The window get_readiness_report queries.  An argument that is None or ""
\* is falsy; a date that does not parse is caught by the bare except.
Window(args) ==
  LET start_date == IF Len(args) >= 1 THEN args[1].s ELSE <<>>
      end_date == IF Len(args) >= 2 THEN args[2].s ELSE <<>>
      end == IF end_date # <<>> /\ IsoOk(end_date) THEN FromIso(end_date) ELSE Today
      start == IF start_date # <<>> /\ IsoOk(start_date)
               THEN FromIso(start_date) ELSE end - DefaultWindowDays
  IN  [start |-> start, end |-> end]

ReportHeader(w) ==
  <<"--- HEALTH READINESS REPORT (">> \o IsoFormat(w.start) \o <<" to ">>
  \o IsoFormat(w.end) \o <<") ---\n">>

SleepLine(r) ==
  LET duration == r.total_sleep_duration[1]
  IN  <<" - ">> \o IsoFormat(r.day) \o <<": Score ">> \o OptStr(r.score)
      \o <<", Duration ">> \o IntStr(duration \div 3600) \o <<"h ">>
      \o IntStr((duration % 3600) \div 60) \o <<"m, Efficiency ">>
      \o OptStr(r.efficiency) \o <<"%\n">>

ActivityLine(r) ==
  <<" - ">> \o IsoFormat(r.day) \o <<": Steps ">> \o CommaStr(r.steps[1])
  \o <<", Calories ">> \o OptStr(r.active_calories) \o <<", Score ">>
  \o OptStr(r.score) \o <<"\n">>

RECURSIVE Lines(_, _)
Lines(Line(_), rows) ==
  IF rows = <<>> THEN <<>> ELSE Line(Head(rows)) \o Lines(Line, Tail(rows))

\* A dict that keeps the first record seen of each exercise, the most recent
\* one, whatever its weight (a variant of MaxLifts).
RECURSIVE MaxLiftsFirstSeen(_, _)
MaxLiftsFirstSeen(ws, exercises) ==
  IF ws = <<>> THEN exercises
  ELSE LET record == Head(ws)
           entry == [name |-> record.exercise_name, weight |-> record.weight_kg,
                     reps |-> record.repetitions, date |-> record.workout_date]
       IN  IF \E i \in 1..Len(exercises) : exercises[i].name = record.exercise_name
           THEN MaxLiftsFirstSeen(Tail(ws), exercises)
           ELSE MaxLiftsFirstSeen(Tail(ws), Append(exercises, entry))

\* The exercises dict: one entry per exercise name, in first-seen order; an
\* entry is replaced only by a strictly heavier record.
RECURSIVE MaxLifts(_, _)
MaxLifts(ws, exercises) ==
  IF ws = <<>> THEN exercises
  ELSE LET record == Head(ws)
           entry == [name |-> record.exercise_name, weight |-> record.weight_kg,
                     reps |-> record.repetitions, date |-> record.workout_date]
           at == {i \in 1..Len(exercises) : exercises[i].name = record.exercise_name}
       IN  IF at = {} THEN MaxLifts(Tail(ws), Append(exercises, entry))
           ELSE LET i == CHOOSE i \in at : TRUE
                IN  IF record.weight_kg > exercises[i].weight
                    THEN MaxLifts(Tail(ws), [exercises EXCEPT ![i] = entry])
                    ELSE MaxLifts(Tail(ws), exercises)

LiftLine(e) ==
  <<" - ">> \o e.name \o <<": Max ">> \o FloatStr(e.weight) \o <<"kg x ">>
  \o IntStr(e.reps) \o <<" reps on ">> \o IsoFormat(e.date) \o <<"\n">>

\* A sleep section that is left out when there is no record (a variant of
\* SleepSection).
SleepSectionOmitted(rows) ==
  IF rows # <<>> THEN <<"\nSLEEP SUMMARY:\n">> \o Lines(SleepLine, rows) ELSE <<>>

SleepSection(rows) ==
  IF rows # <<>> THEN <<"\nSLEEP SUMMARY:\n">> \o Lines(SleepLine, rows)
  ELSE <<"\nSLEEP SUMMARY: No data available\n">>

ActivitySection(rows) ==
  IF rows # <<>> THEN <<"\nACTIVITY SUMMARY:\n">> \o Lines(ActivityLine, rows)
  ELSE <<"\nACTIVITY SUMMARY: No data available\n">>

WorkoutSection(ws) ==
  IF ws # <<>> THEN <<"\nRECENT WORKOUTS:\n">> \o Lines(LiftLine, MaxLifts(ws, <<>>))
  ELSE <<"\nRECENT WORKOUTS: No data available\n">>

NoDataSentinel == <<"No recent Oura or manual workout data found to generate advice.">>

\* The text get_readiness_report returns once its three queries have answered.
\* A null duration or a null step count raises TypeError while its line is
\* formatted, which the tool's except turns into the error text.
ReportText(w, sleep, activity, ws) ==
  LET report == ReportHeader(w) \o SleepSection(sleep) \o ActivitySection(activity)
                \o WorkoutSection(ws)
      err(e) == <<"An error occurred while accessing the aggregated data for the report: ">> \o e
  IN  IF \E i \in 1..Len(sleep) : sleep[i].total_sleep_duration = Null
      THEN err(<<"unsupported operand type(s) for //: 'NoneType' and 'int'">>)
      ELSE IF \E i \in 1..Len(activity) : activity[i].steps = Null
      THEN err(<<"unsupported format string passed to NoneType.__format__">>)
      ELSE IF report = ReportHeader(w) THEN NoDataSentinel
      ELSE report

\* get_readiness_report(start_date=None, end_date=None)
ReadinessOutcomes(args, st) ==
  LET w == Window(args)
      ev0 == <<EvInvoke(REPORT_TOOL, args)>>
      sel(table, ok) == EvSelect(table, w.start, w.end, ok)
      ev1 == Append(ev0, sel("oura_sleep", TRUE))
      ev2 == Append(ev1, sel("oura_activity", TRUE))
      ev3 == Append(ev2, sel("manual_workouts", TRUE))
      down == <<"An error occurred while accessing the aggregated data for the report: ">> \o StoreDown
      sleep == DayDesc(InWindow(st.sleep, w.start, w.end))
      activity == DayDesc(InWindow(st.activity, w.start, w.end))
  IN  {Ret(down, Append(ev0, sel("oura_sleep", FALSE)), st),
       Ret(down, Append(ev1, sel("oura_activity", FALSE)), st),
       Ret(down, Append(ev2, sel("manual_workouts", FALSE)), st)}
      \cup {Ret(ReportText(w, sleep, activity, ws), ev3, st) :
              ws \in WorkoutOrders(st.workouts, w.start, w.end)}

\* tool_func.func(*args): binding the positional arguments to the parameters
\* raises TypeError at the call when their number does not fit.
ArityError == <<"TypeError: wrong number of positional arguments">>

Call(name, args, st) ==
  CASE name = SLEEP_TOOL ->
         IF Len(args) = 1 THEN SleepScoreOutcomes(args[1], st) ELSE {Raise(ArityError, <<>>, st)}
    [] name = STEPS_TOOL ->
         IF Len(args) = 1 THEN StepsOutcomes(args[1], st) ELSE {Raise(ArityError, <<>>, st)}
    [] name = LOG_TOOL ->
         IF Len(args) = 5 THEN LogGymSetOutcomes(args, st) ELSE {Raise(ArityError, <<>>, st)}
    [] name = REPORT_TOOL ->
         IF Len(args) <= 2 THEN ReadinessOutcomes(args, st) ELSE {Raise(ArityError, <<>>, st)}

\* ------------------------------------------------------------------ start-up
ProfileKeys == {"age", "weight", "height", "gender"}

\* The persisted profile documents of the model: polar_token.json is missing,
\* is not valid JSON, or is a JSON object holding some of the profile fields.
ProfileDocs ==
  {[state |-> "missing", fields |-> <<>>],
   [state |-> "unreadable", fields |-> <<>>],
   [state |-> "ok", fields |-> <<>>],
   [state |-> "ok", fields |-> [age |-> 41]],
   [state |-> "ok", fields |-> [weight |-> 64, height |-> 170]],
   [state |-> "ok", fields |-> [age |-> 41, weight |-> 64, height |-> 170, gender |-> "MALE"]]}

\* dict.get(key, default) on the loaded document
DocGet(fields, key, default) == IF key \in DOMAIN fields THEN fields[key] ELSE default

\* USER_PROFILE after the module-level load: the dict is assigned only when
\* the file opened and parsed; the except branch only prints a warning.
LoadProfile(doc) ==
  IF doc.state = "ok"
  THEN [age |-> DocGet(doc.fields, "age", 35), weight |-> DocGet(doc.fields, "weight", 59),
        height |-> DocGet(doc.fields, "height", 162), gender |-> DocGet(doc.fields, "gender", "FEMALE")]
  ELSE <<>>

\* tools_dict: the four tools in the order of the dict literal, each with the
\* first line of its description; empty when the store client is missing.
Registry(available) ==
  IF available
  THEN <<[name |-> SLEEP_TOOL, summary |-> "Retrieves the Oura sleep score and details for a specific date (YYYY-MM-DD)."],
         [name |-> STEPS_TOOL, summary |-> "Retrieves total steps and active calories for a specific date (YYYY-MM-DD)."],
         [name |-> LOG_TOOL, summary |-> "Logs a single set of a gym workout. Input requires date (YYYY-MM-DD), exercise name (text), weight (float), repetitions (int), and set number (int)."],
         [name |-> REPORT_TOOL, summary |-> "Gathers a summary of recent sleep, steps, and maximal lifts for training advice."]>>
  ELSE <<>>

\* ------------------------------------------------------------- process_query
NotRunningMsg == <<"AI model is not running. Please start Ollama.">>
MalformedMsg == <<"Sorry, I couldn't understand the AI's response format. Try asking a specific question about sleep, activity, or logging a set.">>
NotFoundMsg(name) == <<"Error: Tool '">> \o name \o <<"' not found.">>
ExecError(e) ==
  <<"Sorry, I ran into an error trying to execute the action. Please check the date format or simplify your request. Error: ">> \o e
CriticalError(e) == <<"Sorry, I encountered a critical error: ">> \o e
LlmDown == <<"completion service unavailable">>
IndexError == <<"list index out of range">>

\* A description block that lists the tools last-registered first (a variant
\* of ToolsDesc).
RECURSIVE ToolsDescReversed(_)
ToolsDescReversed(reg) ==
  IF reg = <<>> THEN <<>>
  ELSE <<"- ", reg[Len(reg)].name, ": ", reg[Len(reg)].summary>>
       \o (IF Len(reg) > 1 THEN <<"\n">> ELSE <<>>)
       \o ToolsDescReversed(SubSeq(reg, 1, Len(reg) - 1))

\* tools_desc
RECURSIVE ToolsDesc(_)
ToolsDesc(reg) ==
  IF reg = <<>> THEN <<>>
  ELSE <<"- ", reg[1].name, ": ", reg[1].summary>>
       \o (IF Len(reg) > 1 THEN <<"\n">> ELSE <<>>) \o ToolsDesc(Tail(reg))

\* decision_prompt: its literal text and the values formatted into it.
DecisionPrompt(reg, query) ==
  <<"You are a health assistant and decision-maker. ... Available tools:\n">> \o ToolsDesc(reg)
  \o <<"\nToday's date: ">> \o IsoFormat(Today) \o <<"\nYesterday's date: ">> \o IsoFormat(Today - 1)
  \o <<"\nUser Request: \"">> \o query \o <<"\"\n... Your concise response:">>

\* A classification by containment instead of by prefix (a variant of
\* Classify).
ClassifyAnywhere(decision) ==
  IF Contains(decision, <<TOOL_CALL>>) THEN "tool"
  ELSE IF Contains(decision, <<DIRECT_ANSWER>>) THEN "direct"
  ELSE "malformed"

\* The branch process_query takes on the stripped decision.
Classify(decision) ==
  IF StartsWith(decision, <<TOOL_CALL>>) THEN "tool"
  ELSE IF StartsWith(decision, <<DIRECT_ANSWER>>) THEN "direct"
  ELSE "malformed"

\* decision.replace("ACTION: DIRECT_ANSWER |", "").strip()
DirectReply(decision) == Strip(RemoveAll(decision, <<DIRECT_ANSWER, SP, BAR>>))

\* A lookup that falls back to the first registered tool (a variant of
\* Lookup).
LookupWithDefault(reg, name) ==
  IF Len(name) = 1 /\ \E i \in 1..Len(reg) : reg[i].name = name[1] THEN name[1]
  ELSE IF reg # <<>> THEN reg[1].name ELSE "None"

\* tools_dict.get(tool_name): the name of the function found, NoTool for None.
NoTool == "None"
Lookup(reg, name) ==
  IF Len(name) = 1 /\ \E i \in 1..Len(reg) : reg[i].name = name[1] THEN name[1] ELSE NoTool

\* [part.strip() for part in parts[2:]]
StripAll(ps) == [i \in 1..Len(ps) |-> Strip(ps[i])]

\* [i for i in tool_inputs if i]
RECURSIVE Clean(_)
Clean(inputs) ==
  IF inputs = <<>> THEN <<>>
  ELSE (IF Head(inputs) # <<>> THEN <<Head(inputs)>> ELSE <<>>) \o Clean(Tail(inputs))

AsStrs(inputs) == [i \in 1..Len(inputs) |-> PyStr(inputs[i])]

\* The arguments of the first call: tool_func.func(*clean_tool_inputs).
FirstCallArgs(inputs) == AsStrs(Clean(inputs))

\* typed_inputs of log_gym_set, its elements evaluated left to right.
TypedInputs(inputs) ==
  IF Len(inputs) < 3 THEN [ok |-> FALSE, exc |-> IndexError, args |-> <<>>]
  ELSE IF ~FloatOk(inputs[3])
  THEN [ok |-> FALSE, exc |-> <<"could not convert string to float">>, args |-> <<>>]
  ELSE IF Len(inputs) < 4 THEN [ok |-> FALSE, exc |-> IndexError, args |-> <<>>]
  ELSE IF ~IntOk(inputs[4])
  THEN [ok |-> FALSE, exc |-> <<"invalid literal for int() with base 10">>, args |-> <<>>]
  ELSE IF Len(inputs) < 5 THEN [ok |-> FALSE, exc |-> IndexError, args |-> <<>>]
  ELSE IF ~IntOk(inputs[5])
  THEN [ok |-> FALSE, exc |-> <<"invalid literal for int() with base 10">>, args |-> <<>>]
  ELSE [ok |-> TRUE, exc |-> <<>>,
        args |-> <<PyStr(inputs[1]), PyStr(inputs[2]), PyFloat(FloatVal(inputs[3])),
                   PyInt(IntVal(inputs[4])), PyInt(IntVal(inputs[5]))>>]

\* The arguments of the second, per-tool call.
SecondCallArgs(name, inputs) ==
  IF name = <<LOG_TOOL>> THEN TypedInputs(inputs)
  ELSE IF name = <<REPORT_TOOL>>
  THEN [ok |-> TRUE, exc |-> <<>>,
        args |-> IF Len(inputs) >= 2 THEN <<PyStr(inputs[1]), PyStr(inputs[2])>>
                 ELSE IF Len(inputs) = 1 THEN <<PyStr(inputs[1])>> ELSE <<>>]
  ELSE [ok |-> TRUE, exc |-> <<>>, args |-> AsStrs(inputs)]

\* coaching_instruction: formatting it reads age, weight and height of
\* USER_PROFILE, in this order; a missing key raises KeyError.
CoachingKeys == <<"age", "weight", "height">>
MissingKey(profile) ==
  LET miss == {i \in 1..Len(CoachingKeys) : CoachingKeys[i] \notin DOMAIN profile}
  IN  IF miss = {} THEN <<>>
      ELSE <<"'", CoachingKeys[CHOOSE i \in miss : \A j \in miss : i <= j], "'">>

Coaching(name, profile) ==
  IF name # <<REPORT_TOOL>> THEN <<>>
  ELSE <<"\nUSER PROFILE: Age ">> \o IntStr(profile["age"]) \o <<", Weight ">>
       \o IntStr(profile["weight"]) \o <<"kg, Height ">> \o IntStr(profile["height"])
       \o <<"cm. \nUse the data and this profile information ...">>

FormatPrompt(result, query, coaching) ==
  <<"Based on this data:\n">> \o result
  \o <<"\nProvide a friendly, natural, conversational answer to the user request: \"">>
  \o query \o <<"\"\n">> \o coaching \o <<"\nBe concise, warm, and helpful. ...">>

\* A synthesis call placed outside every handler (a variant of
\* OnSynthesisFailure).
OnSynthesisFailureUncaught(e) == [raised |-> TRUE, reply |-> <<>>]

\* What process_query does with an exception of the synthesis call: the call
\* sits inside the try of the tool branch, whose handler returns a reply.
OnSynthesisFailure(e) == [raised |-> FALSE, reply |-> ExecError(e)]

\* A tool branch without a handler (a variant of OnToolFailure).
OnToolFailureUncaught(e) == [raised |-> TRUE, reply |-> <<>>]

\* What process_query does with an exception raised between the split of the
\* decision and the synthesis call (a tool call, a coercion, the coaching
\* instruction): the handler of the tool branch returns a reply.
OnToolFailure(e) == [raised |-> FALSE, reply |-> ExecError(e)]

\* What process_query does with an exception of the decision call.
OnDecisionFailure(e) == [raised |-> FALSE, reply |-> CriticalError(e)]

\* ------------------------------------------------- inputs of the environment
UserQueries == {<<"Should I train hard today?">>}

\* Field literals of the decision lines.
D6 == <<"2025-10-06">>
D7 == <<"2025-10-07">>
D9 == <<"2025-10-09">>
D10 == <<"2025-10-10">>
D4 == <<"2025-10-04">>
BADDATE == <<"yesterday">>
W100 == <<"1", "0", "0", ".", "0">>
W120 == <<"1", "2", "0">>
W80 == <<"8", "0", ".", "5">>
N5 == <<"5">>
N3 == <<"3">>
N0 == <<"0">>

\* " | f1 | f2 ..."
RECURSIVE Fields(_)
Fields(fs) == IF fs = <<>> THEN <<>> ELSE <<SP, BAR, SP>> \o Head(fs) \o Fields(Tail(fs))

ToolLine(name, fs) == <<TOOL_CALL>> \o Fields(<<<<name>>>> \o fs)
DirectLine(text) == <<DIRECT_ANSWER, SP, BAR, SP>> \o text

\* log_gym_set lines with five well-formed fields and valid values
ValidLogArgs ==
  {<<D7, SQUAT, W100, N5, N3>>, <<D7, BENCH, W80, N5, N3>>,
   <<D6, BENCH, W120, N3, N5>>, <<D6, SQUAT, W100, N3, N5>>}

LogLines ==
  {ToolLine(LOG_TOOL, a) : a \in ValidLogArgs}
  \cup {ToolLine(LOG_TOOL, a) : a \in
         {<<D7, SQUAT, N0, N5, N3>>, <<D7, SQUAT, <<"-", "5">>, N5, N3>>,
          <<D7, SQUAT, <<"heavy">>, N5, N3>>, <<D7, SQUAT, W100, <<"5", ".", "0">>, N3>>,
          <<D7, SQUAT, W100, <<"-", "1">>, N3>>, <<D7, SQUAT, W100, N5, N0>>,
          <<D7, <<>>, W100, N5, N3>>, <<BADDATE, SQUAT, W100, N5, N3>>,
          <<D7, SQUAT, W100, N5>>, <<D7, SQUAT, W100, N5, N3, N3>>,
          <<D7, SQUAT, W100, N5, N3, <<>>>>, <<D7, <<>>, SQUAT, W100, N5, N3>>, <<>>}}
  \cup {<<TOOL_CALL, BAR, LOG_TOOL, BAR>> \o D7 \o <<BAR>> \o SQUAT \o <<BAR>> \o W100
        \o <<BAR>> \o N5 \o <<BAR>> \o N3}

ReportLines ==
  {ToolLine(REPORT_TOOL, a) : a \in
    {<<>>, <<D6>>, <<D6, D7>>, <<D7, D6>>, <<D4, D7>>, <<D9, D10>>, <<BADDATE>>,
     <<BADDATE, D7>>, <<D6, BADDATE>>, <<<<>>, D6>>, <<<<>>>>, <<D6, D7, D9>>}}

QueryLines ==
  {ToolLine(SLEEP_TOOL, a) : a \in {<<D7>>, <<D9>>, <<BADDATE>>, <<>>, <<D7, D6>>, <<D7, <<>>>>}}
  \cup {ToolLine(STEPS_TOOL, a) : a \in {<<D7>>, <<D4>>, <<D9>>, <<BADDATE>>, <<>>}}

OtherToolLines ==
  {ToolLine("delete_all_data", <<D7>>), <<TOOL_CALL, SP, BAR, SP>>, <<TOOL_CALL>>,
   <<SP>> \o ToolLine(REPORT_TOOL, <<>>) \o <<SP>>, ToolLine("Log_Gym_Set", <<D7>>)}

DirectLines ==
  {DirectLine(<<"Hello!">>), DirectLine(<<"Hello", SP, "there!", SP>>), DirectLine(<<>>),
   DirectLine(<<"a", BAR, "b">>),
   DirectLine(<<"You", SP, "said:", SP, DIRECT_ANSWER, SP, BAR, SP, "hi">>),
   <<DIRECT_ANSWER, BAR, "Hi">>, <<DIRECT_ANSWER>>}

MalformedLines ==
  {<<>>, <<"Hello!">>, <<"action: tool_call", SP, BAR, SP, LOG_TOOL>>,
   <<"Sure!", SP>> \o ToolLine(REPORT_TOOL, <<>>), <<"TOOL_CALL", SP, BAR, SP, REPORT_TOOL>>}

\* What the completion service may answer to the decision prompt.
LLMOutputs ==
  LogLines \cup ReportLines \cup QueryLines \cup OtherToolLines \cup DirectLines
  \cup MalformedLines

\* What it may answer to the synthesis prompt.
LLMAnswers == {<<"You slept well; go for a heavy session today.">>, <<>>}

\* --------------------------------------------------------------------- state
VARIABLES
  llm,                 \* the completion client exists (llm is not None)
  supabase_available,  \* the store client was created
  profile_doc,         \* polar_token.json as found at start-up
  USER_PROFILE,        \* the profile dict
  tools_dict,          \* the tool registry
  store,               \* the fact store
  queries,             \* process_query calls started so far
  pc,                  \* where the current process_query call stands
  user_query,          \* its argument
  decision,            \* the stripped decision line
  parts,               \* decision.split("|"), <<>> while not split
  tool_result,         \* the last value assigned to tool_result
  reply,               \* the value returned
  raised,              \* the call ended by raising to its caller
  trace,               \* the collaborator calls of the current query, in order
  \* app.py, the chat input handler
  ollama_available,    \* the connectivity test of the completion client passed
  messages,            \* st.session_state.messages
  chat_pc,             \* where the handler of the current input stands
  assistant_response,  \* its local of that name
  \* fetch_polar_data.py, the main block
  polar_supabase,      \* the store client of the script exists
  polar_pc,            \* where the run stands
  transaction_id,      \* ex_transaction_id / act_transaction_id, <<>> for None
  links,               \* the links still to fetch
  to_save,             \* exercises_to_save_to_db / activities_to_save_to_db
  polar_log,           \* the calls of the run to Polar and to the store, in order
  \* fetch_oura_data.py, fetch_oura_data_for_period
  server,              \* what the Oura server answers to each page request
  url,                 \* the page to request next, 0 for None
  all_data,            \* the records collected
  page_count,          \* the requests made
  oura_result          \* <<>> until the function returns, then <<the list returned>>

config == <<llm, ollama_available, supabase_available, profile_doc, USER_PROFILE, tools_dict>>
query == <<store, queries, pc, user_query, decision, parts, tool_result, reply, raised, trace>>
chat == <<messages, chat_pc, assistant_response>>
polar == <<polar_supabase, polar_pc, transaction_id, links, to_save, polar_log>>
oura == <<server, url, all_data, page_count, oura_result>>

vars == <<config, query, chat, polar, oura>>

tool_name == Strip(parts[2])
tool_inputs == StripAll(Drop(parts, 3))
tool_func == Lookup(tools_dict, tool_name)

\* The chat handler before any input.
ChatIdle == messages = <<>> /\ chat_pc = "idle" /\ assistant_response = <<>>

\* fetch_polar_data.py not run.
PolarIdle ==
  /\ polar_supabase = FALSE /\ polar_pc = <<"none", "off">> /\ transaction_id = <<>>
  /\ links = <<>> /\ to_save = <<>> /\ polar_log = <<>>

\* fetch_oura_data_for_period not called.
OuraIdle ==
  server = <<>> /\ url = 0 /\ all_data = <<>> /\ page_count = 0 /\ oura_result = <<>>

\* process_query reads llm and never ollama_available, and the handler calls
\* it only when the connectivity test passed; the start-up state in which
\* the test failed after llm was built is a start of the chat handler (InitChat).
Init ==
  /\ llm \in BOOLEAN
  /\ ollama_available = llm
  /\ ChatIdle /\ PolarIdle /\ OuraIdle
  /\ supabase_available \in BOOLEAN
  /\ profile_doc \in ProfileDocs
  /\ USER_PROFILE = LoadProfile(profile_doc)
  /\ tools_dict = Registry(supabase_available)
  /\ store \in InitStores
  /\ queries = 0
  /\ pc = "idle"
  /\ user_query = <<>>
  /\ decision = <<>>
  /\ parts = <<>>
  /\ tool_result = <<>>
  /\ reply = <<>>
  /\ raised = FALSE
  /\ trace = <<>>

\* A new call may start when none is running.
CanStart == pc = "idle" /\ queries < MaxQueries

\* if not llm: return ...
NotRunning ==
  /\ CanStart /\ ~llm
  /\ \E q \in UserQueries : user_query' = q
  /\ queries' = queries + 1
  /\ decision' = <<>> /\ parts' = <<>> /\ tool_result' = <<>> /\ trace' = <<>>
  /\ reply' = NotRunningMsg /\ raised' = FALSE /\ pc' = "done"
  /\ UNCHANGED <<config, chat, polar, oura, store>>

\* A decision call that is made a second time after it raised (a variant of
\* DecisionFails).
DecisionRetried ==
  /\ CanStart /\ llm
  /\ \E q \in UserQueries :
       /\ user_query' = q
       /\ trace' = <<EvLlm("decision", DecisionPrompt(tools_dict, q), FALSE),
                     EvLlm("decision", DecisionPrompt(tools_dict, q), FALSE)>>
  /\ queries' = queries + 1
  /\ decision' = <<>> /\ parts' = <<>> /\ tool_result' = <<>>
  /\ reply' = OnDecisionFailure(LlmDown).reply
  /\ raised' = OnDecisionFailure(LlmDown).raised
  /\ pc' = "done"
  /\ UNCHANGED <<config, chat, polar, oura, store>>

\* llm.invoke(decision_prompt) raises: the outer handler answers.
DecisionFails ==
  /\ CanStart /\ llm
  /\ \E q \in UserQueries :
       /\ user_query' = q
       /\ trace' = <<EvLlm("decision", DecisionPrompt(tools_dict, q), FALSE)>>
  /\ queries' = queries + 1
  /\ decision' = <<>> /\ parts' = <<>> /\ tool_result' = <<>>
  /\ reply' = OnDecisionFailure(LlmDown).reply
  /\ raised' = OnDecisionFailure(LlmDown).raised
  /\ pc' = "done"
  /\ UNCHANGED <<config, chat, polar, oura, store>>

\* The tool branch ends in its handler.
Fail(e) ==
  /\ reply' = OnToolFailure(e).reply
  /\ raised' = OnToolFailure(e).raised
  /\ pc' = "done"

\* The decision call answers; the line is classified, and a tool call is
\* split and looked up.
Decide ==
  /\ CanStart /\ llm
  /\ \E q \in UserQueries, out \in LLMOutputs :
       LET d == Strip(out)
           kind == Classify(d)
           ps == IF kind = "tool" THEN Split(d) ELSE <<>>
       IN  /\ user_query' = q
           /\ trace' = <<EvLlm("decision", DecisionPrompt(tools_dict, q), TRUE)>>
           /\ decision' = d
           /\ parts' = ps
           /\ CASE kind = "direct" ->
                     reply' = DirectReply(d) /\ raised' = FALSE /\ pc' = "done"
                [] kind = "malformed" ->
                     reply' = MalformedMsg /\ raised' = FALSE /\ pc' = "done"
                [] kind = "tool" /\ Len(ps) < 2 -> Fail(IndexError)
                [] kind = "tool" /\ Len(ps) >= 2 /\ Lookup(tools_dict, Strip(ps[2])) = NoTool ->
                     reply' = NotFoundMsg(Strip(ps[2])) /\ raised' = FALSE /\ pc' = "done"
                [] OTHER -> reply' = <<>> /\ raised' = FALSE /\ pc' = "call1"
  /\ queries' = queries + 1
  /\ tool_result' = <<>>
  /\ UNCHANGED <<config, chat, polar, oura, store>>

\* tool_result = tool_func.func(*clean_tool_inputs)
FirstCall ==
  /\ pc = "call1"
  /\ \E o \in Call(tool_func, FirstCallArgs(tool_inputs), store) :
       /\ trace' = trace \o o.events
       /\ store' = o.store
       /\ IF o.raised
          THEN Fail(o.exc) /\ tool_result' = tool_result
          ELSE reply' = reply /\ raised' = raised /\ pc' = "call2" /\ tool_result' = o.result
  /\ UNCHANGED <<config, chat, polar, oura, queries, user_query, decision, parts>>

\* The per-tool call that follows, then the coaching instruction.
SecondCall ==
  /\ pc = "call2"
  /\ LET a == SecondCallArgs(tool_name, tool_inputs)
     IN  IF ~a.ok
         THEN /\ Fail(a.exc)
              /\ UNCHANGED <<tool_result, trace, store>>
         ELSE \E o \in Call(tool_func, a.args, store) :
                /\ trace' = trace \o o.events
                /\ store' = o.store
                /\ IF o.raised
                   THEN Fail(o.exc) /\ tool_result' = tool_result
                   ELSE /\ tool_result' = o.result
                        /\ IF tool_name = <<REPORT_TOOL>> /\ MissingKey(USER_PROFILE) # <<>>
                           THEN Fail(MissingKey(USER_PROFILE))
                           ELSE reply' = reply /\ raised' = raised /\ pc' = "synth"
  /\ UNCHANGED <<config, chat, polar, oura, queries, user_query, decision, parts>>

format_prompt == FormatPrompt(tool_result, user_query, Coaching(tool_name, USER_PROFILE))

\* return llm.invoke(format_prompt)
SynthesisAnswers ==
  /\ pc = "synth"
  /\ \E ans \in LLMAnswers : reply' = ans
  /\ trace' = Append(trace, EvLlm("synthesis", format_prompt, TRUE))
  /\ pc' = "done"
  /\ UNCHANGED <<config, chat, polar, oura, store, queries, user_query, decision, parts, tool_result, raised>>

\* A synthesis call that is made again after it raised (a variant of
\* SynthesisFails).
SynthesisRetried ==
  /\ pc = "synth"
  /\ trace' = Append(trace, EvLlm("synthesis", format_prompt, FALSE))
  /\ UNCHANGED <<config, chat, polar, oura, store, queries, pc, user_query, decision, parts, tool_result, reply, raised>>

\* llm.invoke(format_prompt) raises
SynthesisFails ==
  /\ pc = "synth"
  /\ trace' = Append(trace, EvLlm("synthesis", format_prompt, FALSE))
  /\ reply' = OnSynthesisFailure(LlmDown).reply
  /\ raised' = OnSynthesisFailure(LlmDown).raised
  /\ pc' = "done"
  /\ UNCHANGED <<config, chat, polar, oura, store, queries, user_query, decision, parts, tool_result>>

\* A return that also empties the profile dict (a variant of Return).
ReturnClearingProfile ==
  /\ pc = "done"
  /\ pc' = "idle"
  /\ user_query' = <<>> /\ decision' = <<>> /\ parts' = <<>> /\ tool_result' = <<>>
  /\ reply' = <<>> /\ raised' = FALSE /\ trace' = <<>>
  /\ USER_PROFILE' = <<>>
  /\ UNCHANGED <<llm, ollama_available, supabase_available, profile_doc, tools_dict,
                 chat, polar, oura, store, queries>>

\* The call is over: its result has gone to the caller and its locals are
\* dropped.
Return ==
  /\ pc = "done"
  /\ pc' = "idle"
  /\ user_query' = <<>> /\ decision' = <<>> /\ parts' = <<>> /\ tool_result' = <<>>
  /\ reply' = <<>> /\ raised' = FALSE /\ trace' = <<>>
  /\ UNCHANGED <<config, chat, polar, oura, store, queries>>

Next ==
  \/ NotRunning
  \/ DecisionFails
  \/ Decide
  \/ FirstCall
  \/ SecondCall
  \/ SynthesisAnswers
  \/ SynthesisFails
  \/ Return

Spec == Init /\ [][Next]_vars

\* ------------------------------------------------- app.py, chat input handler
\* The inputs a user submits; st.chat_input returns None for an empty one.
UserInputs == {<<"How did I sleep last night?">>, <<"Log squat 100kg x 5">>}

\* What process_query hands back to the handler: a reply of any of its
\* branches, the empty reply included.
ProcessQueryReplies ==
  {MalformedMsg, CriticalError(LlmDown), ExecError(IndexError), DirectReply(<<DIRECT_ANSWER>>)}
  \cup LLMAnswers

\* The exceptions that may leave process_query (raised inside one of its
\* handlers, which print before they return).
ProcessQueryErrors == {<<"[Errno 32] Broken pipe">>}

InitialResponse == <<"Sorry, the AI agent is not available or encountered an error.">>
NotInitializedMsg ==
  <<"AI components are not initialized. Please check the System Status sidebar.">>
ProcessingError(e) == <<"Sorry, an error occurred while the AI was processing: ">> \o e

Message(role, content) == [role |-> role, content |-> content]

\* A handler that puts the assistant entry in front of the transcript (a
\* variant of AppendMessage).
PrependMessage(ms, role, content) == <<Message(role, content)>> \o ms

\* st.session_state.messages.append({"role": ..., "content": ...})
AppendMessage(ms, role, content) == Append(ms, Message(role, content))

\* if user_input := st.chat_input(...): the user entry is appended and
\* assistant_response gets its initial text.
Submit ==
  /\ chat_pc = "idle" /\ Len(messages) < 2 * MaxInputs
  /\ \E user_input \in UserInputs : messages' = AppendMessage(messages, "user", user_input)
  /\ assistant_response' = InitialResponse
  /\ chat_pc' = "submitted"
  /\ UNCHANGED <<config, query, polar, oura>>

\* else: "AI components are not initialized. ..."
NotReady ==
  /\ chat_pc = "submitted" /\ ~(ollama_available /\ supabase_available)
  /\ assistant_response' = NotInitializedMsg
  /\ chat_pc' = "respond"
  /\ UNCHANGED <<config, query, polar, oura, messages>>

\* assistant_response = process_query(user_input)
ProcessReturns ==
  /\ chat_pc = "submitted" /\ ollama_available /\ supabase_available
  /\ \E r \in ProcessQueryReplies : assistant_response' = r
  /\ chat_pc' = "respond"
  /\ UNCHANGED <<config, query, polar, oura, messages>>

\* except Exception as e: "Sorry, an error occurred while the AI was
\* processing: {e}"
ProcessRaises ==
  /\ chat_pc = "submitted" /\ ollama_available /\ supabase_available
  /\ \E e \in ProcessQueryErrors : assistant_response' = ProcessingError(e)
  /\ chat_pc' = "respond"
  /\ UNCHANGED <<config, query, polar, oura, messages>>

\* The assistant entry is appended and shown.
Respond ==
  /\ chat_pc = "respond"
  /\ messages' = AppendMessage(messages, "assistant", assistant_response)
  /\ chat_pc' = "idle"
  /\ UNCHANGED <<config, query, polar, oura, assistant_response>>

NextChat ==
  \/ Submit
  \/ NotReady
  \/ ProcessReturns
  \/ ProcessRaises
  \/ Respond

\* The handler starts after the module has run: llm is built or not, and the
\* connectivity test passed only if it was built.
InitChat ==
  /\ llm \in BOOLEAN
  /\ ollama_available \in {b \in BOOLEAN : b => llm}
  /\ supabase_available \in BOOLEAN
  /\ profile_doc \in ProfileDocs
  /\ USER_PROFILE = LoadProfile(profile_doc)
  /\ tools_dict = Registry(supabase_available)
  /\ store \in InitStores
  /\ queries = 0 /\ pc = "idle" /\ user_query = <<>> /\ decision = <<>> /\ parts = <<>>
  /\ tool_result = <<>> /\ reply = <<>> /\ raised = FALSE /\ trace = <<>>
  /\ ChatIdle /\ PolarIdle /\ OuraIdle

SpecChat == InitChat /\ [][NextChat]_vars

\* ------------------------------------------ fetch_polar_data.py, main block
\* The summaries Polar may return for an exercise link: id is the text of
\* summary.get('id'), user the last path segment of summary.get('polar-user')
\* (<<>> when the field is missing or empty), start tells whether
\* 'start-time' is there.
ExerciseSummaries ==
  {[id |-> <<"4", "2">>, user |-> <<"7">>, start |-> TRUE],
   [id |-> <<"None">>, user |-> <<"7">>, start |-> TRUE],
   [id |-> <<"0">>, user |-> <<"7">>, start |-> TRUE],
   [id |-> <<"4", "2">>, user |-> <<"7">>, start |-> FALSE],
   [id |-> <<"4", "2">>, user |-> <<>>, start |-> TRUE],
   [id |-> <<"4", "2">>, user |-> <<"me">>, start |-> TRUE]}

\* Those of an activity link: date tells whether 'date' is there.
ActivitySummaries ==
  {[date |-> TRUE, user |-> <<"7">>], [date |-> TRUE, user |-> <<>>],
   [date |-> FALSE, user |-> <<"7">>]}

\* What the loop body does with an exercise summary: the record is appended,
\* skipped, or an exception leaves the script.  The fallback of the user id
\* names POLAR_USER_ID, which the script never defines.
FormatExercise(summary) ==
  IF ~IntOk(summary.id) THEN [do |-> "skip", exc |-> <<>>]
  ELSE IF summary.user = <<>>
  THEN [do |-> "crash", exc |-> <<"name 'POLAR_USER_ID' is not defined">>]
  ELSE IF ~IntOk(summary.user)
  THEN [do |-> "crash", exc |-> <<"invalid literal for int() with base 10">>]
  ELSE IF IntVal(summary.id) # 0 /\ summary.start THEN [do |-> "append", exc |-> <<>>]
  ELSE [do |-> "skip", exc |-> <<>>]

\* What it does with an activity summary.
FormatActivity(summary) ==
  IF summary.date THEN [do |-> "append", exc |-> <<>>] ELSE [do |-> "skip", exc |-> <<>>]

\* A call of the run to Polar or to the store.
PolarCall(op, kind, ok) == [op |-> op, kind |-> kind, ok |-> ok]

\* The link lists a transaction may hold.
LinkLists == {[i \in 1..n |-> i] : n \in 0..MaxLinks}

\* Where the run goes once a kind is done with.
AfterKind(kind) == IF kind = "exercise" THEN <<"activity", "create">> ELSE <<"none", "end">>

\* user = check_user_info(); if not user: exit()
CheckUserInfo ==
  /\ polar_pc = <<"none", "start">>
  /\ \E ok \in BOOLEAN :
       /\ polar_log' = Append(polar_log, PolarCall("user", "none", ok))
       /\ polar_pc' = IF ok THEN <<"exercise", "create">> ELSE <<"none", "exit">>
  /\ UNCHANGED <<config, query, chat, oura, polar_supabase, transaction_id, links, to_save>>

\* create_exercise_transaction() / create_activity_transaction(): 201 with
\* a transaction id and its links, or 204 or an error with None.
CreateTransaction ==
  /\ polar_pc[2] = "create"
  /\ LET kind == polar_pc[1]
     IN  \/ \E ls \in LinkLists :
              /\ polar_log' = Append(polar_log, PolarCall("create", kind, TRUE))
              /\ transaction_id' = <<"101">>
              /\ links' = ls
              /\ polar_pc' = IF ls = <<>> THEN <<kind, "list">> ELSE <<kind, "fetch">>
         \/ /\ polar_log' = Append(polar_log, PolarCall("create", kind, FALSE))
            /\ transaction_id' = <<>>
            /\ links' = <<>>
            /\ polar_pc' = AfterKind(kind)
  /\ UNCHANGED <<config, query, chat, oura, polar_supabase, to_save>>

\* if not ex_links: ex_links = list_exercises_in_transaction(...); an error
\* gives [].
ListTransaction ==
  /\ polar_pc[2] = "list"
  /\ LET kind == polar_pc[1]
     IN  \E ls \in LinkLists :
           /\ polar_log' = Append(polar_log, PolarCall("list", kind, TRUE))
           /\ links' = ls
           /\ polar_pc' = IF ls = <<>> THEN <<kind, "upsert">> ELSE <<kind, "fetch">>
  /\ UNCHANGED <<config, query, chat, oura, polar_supabase, transaction_id, to_save>>

\* One turn of for link in ex_links / act_links.
FetchSummary ==
  /\ polar_pc[2] = "fetch" /\ links # <<>>
  /\ LET kind == polar_pc[1]
         next == IF Tail(links) = <<>> THEN <<kind, "upsert">> ELSE <<kind, "fetch">>
     IN  \/ /\ polar_log' = Append(polar_log, PolarCall("fetch", kind, FALSE))
            /\ links' = Tail(links) /\ to_save' = to_save /\ polar_pc' = next
         \/ \E summary \in IF kind = "exercise" THEN ExerciseSummaries ELSE ActivitySummaries :
              LET f == IF kind = "exercise" THEN FormatExercise(summary)
                       ELSE FormatActivity(summary)
              IN  /\ polar_log' = Append(polar_log, PolarCall("fetch", kind, TRUE))
                  /\ IF f.do = "crash"
                     THEN links' = links /\ to_save' = to_save /\ polar_pc' = <<kind, "crashed">>
                     ELSE /\ links' = Tail(links)
                          /\ to_save' = IF f.do = "append"
                                         THEN [to_save EXCEPT ![kind] = Append(@, summary)]
                                         ELSE to_save
                          /\ polar_pc' = next
  /\ UNCHANGED <<config, query, chat, oura, polar_supabase, transaction_id>>

\* if exercises_to_save_to_db and supabase: upsert, whose error or exception
\* is printed; otherwise nothing is sent.
Upsert ==
  /\ polar_pc[2] = "upsert"
  /\ LET kind == polar_pc[1]
     IN  /\ IF to_save[kind] # <<>> /\ polar_supabase
            THEN \E ok \in BOOLEAN : polar_log' = Append(polar_log, PolarCall("upsert", kind, ok))
            ELSE polar_log' = polar_log
         /\ polar_pc' = <<kind, "commit">>
  /\ UNCHANGED <<config, query, chat, oura, polar_supabase, transaction_id, links, to_save>>

\* commit_exercise_transaction(id) / commit_activity_transaction(id)
Commit ==
  /\ polar_pc[2] = "commit"
  /\ LET kind == polar_pc[1]
     IN  /\ \E ok \in BOOLEAN : polar_log' = Append(polar_log, PolarCall("commit", kind, ok))
         /\ polar_pc' = AfterKind(kind)
  /\ UNCHANGED <<config, query, chat, oura, polar_supabase, transaction_id, links, to_save>>

NextPolar ==
  \/ CheckUserInfo
  \/ CreateTransaction
  \/ ListTransaction
  \/ FetchSummary
  \/ Upsert
  \/ Commit

\* app.py not started: the other script is on its own.
AppOff ==
  /\ llm = FALSE /\ ollama_available = FALSE /\ supabase_available = FALSE
  /\ profile_doc = [state |-> "missing", fields |-> <<>>]
  /\ USER_PROFILE = <<>> /\ tools_dict = <<>> /\ store = EmptyStore
  /\ queries = 0 /\ pc = "idle" /\ user_query = <<>> /\ decision = <<>> /\ parts = <<>>
  /\ tool_result = <<>> /\ reply = <<>> /\ raised = FALSE /\ trace = <<>>
  /\ ChatIdle

\* The script starts with a token file that loaded; its store client exists
\* or not.
InitPolar ==
  /\ AppOff /\ OuraIdle
  /\ polar_supabase \in BOOLEAN
  /\ polar_pc = <<"none", "start">>
  /\ transaction_id = <<>> /\ links = <<>>
  /\ to_save = [exercise |-> <<>>, activity |-> <<>>]
  /\ polar_log = <<>>

SpecPolar == InitPolar /\ [][NextPolar]_vars

\* ------------------------------- fetch_oura_data.py, fetch_oura_data_for_period
\* What the server answers to a page request: a JSON object with n records
\* under 'data' and a next_token or none, a request that fails (connection
\* or HTTP status), or a body that is not JSON.
Pages ==
  [kind : {"ok"}, n : 0..MaxRecords, next : BOOLEAN]
    \cup {[kind |-> "request_error", n |-> 0, next |-> FALSE],
          [kind |-> "json_error", n |-> 0, next |-> FALSE]}

\* A page after which the server names no further page.
Last(page) == page.kind # "ok" \/ ~page.next

\* The servers that end: pages 1..n, the last of which names no further one.
Servers ==
  UNION {{sv \in [1..n -> Pages] : Last(sv[n])} : n \in 1..MaxPages}

\* data.get('data', []) of page i: its records, told apart by page and place.
Records(i, page) == [k \in 1..page.n |-> <<i, k>>]

\* A function that drops what it collected when a page fails (a variant of
\* the collection below).
ExtendedOrDropped(data, i, page) ==
  IF page.kind = "ok" THEN data \o Records(i, page) ELSE <<>>

\* all_data after the answer to the request of page i: extended by the
\* records of a page that was read, as it was when the request or the
\* decoding failed.
Extended(data, i, page) ==
  IF page.kind = "ok" THEN data \o Records(i, page) ELSE data

\* url after the answer: the page the next_token names, None without one or
\* after a failure.
NextUrl(i, page) == IF page.kind = "ok" /\ page.next THEN i + 1 ELSE 0

\* One turn of while url: the request, and what the try block or its
\* handlers leave.
FetchPage ==
  /\ url # 0 /\ oura_result = <<>>
  /\ page_count' = page_count + 1
  /\ all_data' = Extended(all_data, url, server[url])
  /\ url' = NextUrl(url, server[url])
  /\ UNCHANGED <<config, query, chat, polar, server, oura_result>>

\* return all_data
ReturnAllData ==
  /\ url = 0 /\ server # <<>> /\ oura_result = <<>>
  /\ oura_result' = <<all_data>>
  /\ UNCHANGED <<config, query, chat, polar, server, url, all_data, page_count>>

NextOura ==
  \/ FetchPage
  \/ ReturnAllData

\* The call: all_data = [], url the first page, page_count = 0.
InitOura ==
  /\ AppOff /\ PolarIdle
  /\ server \in Servers
  /\ url = 1 /\ all_data = <<>> /\ page_count = 0 /\ oura_result = <<>>

\* The loop is sequential code: a turn that can run does run, and so does
\* the return after the loop.
SpecOura == InitOura /\ [][NextOura]_vars /\ WF_vars(NextOura)

\* ==================================================================== claims
\* Views of the current query's trace.
Count(op) == Cardinality({i \in 1..Len(trace) : trace[i].op = op})
Answered == trace # <<>> /\ trace[1].op = "llm" /\ trace[1].ok
SynthesisFailed ==
  \E i \in 1..Len(trace) : trace[i].op = "llm" /\ trace[i].name = "synthesis" /\ ~trace[i].ok
IsToolCallLine == StartsWith(decision, <<TOOL_CALL>>) /\ Len(parts) >= 2

\* C1 (as stated): within one query the selected tool's function is invoked
\* at most once before synthesis.
C1_ToolInvokedAtMostOnce == Count("invoke") <= 1

\* C2 (as stated): when the window of a readiness report holds no sleep, no
\* activity and no workout record and the three queries answered, the report
\* returned is the "no data found" sentinel.
C2_EmptyWindowGivesSentinel ==
  (/\ pc \in {"call2", "synth"}
   /\ tool_name = <<REPORT_TOOL>>
   /\ \A i \in 1..Len(trace) : trace[i].ok
   /\ \A i \in 1..Len(trace) : trace[i].op = "select" =>
        /\ InWindow(store.sleep, trace[i].lo, trace[i].hi) = {}
        /\ InWindow(store.activity, trace[i].lo, trace[i].hi) = {}
        /\ WorkoutOrders(store.workouts, trace[i].lo, trace[i].hi) = {<<>>})
  => tool_result = NoDataSentinel

\* The invoke event a store call at position i belongs to.
InvokeBefore(i) == CHOOSE j \in 1..i : trace[j].op = "invoke" /\ \A k \in (j + 1)..i : trace[k].op # "invoke"

\* C3 (as stated): every window get_readiness_report queries has
\* start <= end (supplied dates that are out of order being replaced by the
\* default window).
C3_WindowOrdered ==
  \A i \in 1..Len(trace) :
    trace[i].op = "select" /\ trace[i].ok => trace[i].lo <= trace[i].hi

\* C3 (amended): the window queried is the supplied one whenever the dates
\* parse, also when start > end: its end is the end argument, or today when
\* that is missing or does not parse; its start is the start argument, or
\* end - 3 days when that is missing or does not parse.  start <= end holds
\* whenever the start is defaulted, and no date error reaches the result.
C3_WindowAsSupplied ==
  /\ \A i \in 1..Len(trace) :
       trace[i].op = "select" /\ trace[InvokeBefore(i)].name = REPORT_TOOL =>
         LET a == trace[InvokeBefore(i)].args
             endGiven == Len(a) >= 2 /\ IsoOk(a[2].s)
             startGiven == Len(a) >= 1 /\ IsoOk(a[1].s)
             hi == IF endGiven THEN FromIso(a[2].s) ELSE Today
             lo == IF startGiven THEN FromIso(a[1].s) ELSE hi - 3
         IN  /\ trace[i].lo = lo
             /\ trace[i].hi = hi
             /\ (~startGiven => trace[i].lo <= trace[i].hi)
  /\ (IsToolCallLine /\ tool_name = <<REPORT_TOOL>>) =>
       ~Contains(tool_result, BadIso) /\ ~Contains(reply, BadIso)

\* A report was asked for a window whose start lies after its end.
C3_Witness ==
  \E i \in 1..Len(trace) :
    /\ trace[i].op = "select" /\ trace[i].name = "manual_workouts" /\ trace[i].ok
    /\ trace[i].lo > trace[i].hi

\* C4 (as stated): a failure of the synthesis call leaves process_query as
\* an exception raised to its caller.
C4_SynthesisFailurePropagates == (pc = "done" /\ SynthesisFailed) => raised

\* C4 (amended): a failure of the synthesis call does not leave
\* process_query: the handler of the tool branch returns the "Sorry, I ran
\* into an error trying to execute the action" reply carrying the failure's
\* text, so the reply is never empty.
C4_SynthesisFailureReturned ==
  (pc = "done" /\ SynthesisFailed) =>
    /\ ~raised
    /\ reply # <<>>
    /\ StartsWith(reply, ExecError(<<>>))
    /\ Contains(reply, LlmDown)

\* The synthesis call failed after a tool had run.
C4_Witness == pc = "done" /\ SynthesisFailed /\ Count("invoke") >= 1

DefaultProfile == [age |-> 35, weight |-> 59, height |-> 162, gender |-> "FEMALE"]

\* C5 (as stated): whatever the persisted profile document, the profile a
\* readiness-report query uses has all four fields, each the document's value
\* or else its default, and the query does not fail on an absent field.
C5_ProfileComplete ==
  (/\ pc = "done" /\ IsToolCallLine /\ tool_name = <<REPORT_TOOL>>
   /\ Count("invoke") = 2 /\ \A i \in 1..Len(trace) : trace[i].ok) =>
    /\ DOMAIN USER_PROFILE = ProfileKeys
    /\ \A k \in ProfileKeys :
         USER_PROFILE[k] = IF profile_doc.state = "ok" /\ k \in DOMAIN profile_doc.fields
                           THEN profile_doc.fields[k] ELSE DefaultProfile[k]
    /\ ~Contains(reply, <<"'", "age", "'">>)

\* C6 (as stated): a decision 'ACTION: DIRECT_ANSWER | <text>' is answered
\* with exactly <text>, trimmed, with no tool call and no completion call
\* besides the decision call.
C6_DirectAnswerVerbatim ==
  (pc = "done" /\ Answered /\ StartsWith(decision, <<DIRECT_ANSWER, SP, BAR>>)) =>
    /\ reply = Strip(Drop(decision, 4))
    /\ Count("invoke") = 0
    /\ Count("llm") = 1

\* C7: a decision that starts with neither prefix is answered with the fixed
\* "couldn't understand" message; the line is not split, no tool is invoked,
\* the store is not called and no second completion call is made.
C7_MalformedDecision ==
  (/\ pc = "done" /\ Answered
   /\ ~StartsWith(decision, <<TOOL_CALL>>)
   /\ ~StartsWith(decision, <<DIRECT_ANSWER>>)) =>
    /\ reply = MalformedMsg
    /\ parts = <<>>
    /\ Count("invoke") = 0
    /\ Count("select") + Count("insert") = 0
    /\ Count("llm") = 1

\* A line that holds "|" but no known prefix at its start was answered.
C7_Witness ==
  /\ pc = "done" /\ Answered /\ reply = MalformedMsg
  /\ Contains(decision, <<BAR>>) /\ Contains(decision, <<TOOL_CALL>>)

\* C8: a tool name that is not in the registry is answered with the "tool
\* not found" text naming it; no tool function is invoked and no synthesis
\* call is made.
C8_UnknownTool ==
  (/\ pc = "done" /\ Answered /\ IsToolCallLine
   /\ ~\E i \in 1..Len(tools_dict) : <<tools_dict[i].name>> = tool_name) =>
    /\ reply = <<"Error: Tool '">> \o tool_name \o <<"' not found.">>
    /\ Count("invoke") = 0
    /\ Count("llm") = 1

\* An unknown name was looked up in the full registry.
C8_Witness ==
  /\ pc = "done" /\ Answered /\ IsToolCallLine
  /\ Len(tools_dict) = 4 /\ tool_name = <<"delete_all_data">>
  /\ Contains(reply, <<"delete_all_data">>)

\* A log_gym_set line with five fields that parse.
WellFormedLog ==
  /\ IsToolCallLine /\ tool_name = <<LOG_TOOL>> /\ Len(tool_inputs) = 5
  /\ IsoOk(tool_inputs[1]) /\ tool_inputs[2] # <<>>
  /\ FloatOk(tool_inputs[3]) /\ IntOk(tool_inputs[4]) /\ IntOk(tool_inputs[5])

\* C9 (as stated): for a well-formed five-field log_gym_set line every
\* invocation of log_gym_set gets (date str, exercise str, weight float, reps
\* int, sets int), and the result handed to synthesis is the success text
\* holding the exercise name and the weight.
C9_LogInvokedTyped ==
  WellFormedLog =>
    /\ \A i \in 1..Len(trace) : trace[i].op = "invoke" =>
         trace[i].args = <<PyStr(tool_inputs[1]), PyStr(tool_inputs[2]),
                           PyFloat(FloatVal(tool_inputs[3])), PyInt(IntVal(tool_inputs[4])),
                           PyInt(IntVal(tool_inputs[5]))>>
    /\ (/\ pc = "synth" /\ \A i \in 1..Len(trace) : trace[i].ok
        /\ FloatVal(tool_inputs[3]) > 0 /\ IntVal(tool_inputs[4]) > 0
        /\ IntVal(tool_inputs[5]) > 0) =>
         /\ StartsWith(tool_result, <<"Successfully logged Set ">>)
         /\ Contains(tool_result, tool_inputs[2])
         /\ Contains(tool_result, FloatStr(FloatVal(tool_inputs[3])))

LogSucceeded ==
  /\ IsToolCallLine /\ tool_name = <<LOG_TOOL>>
  /\ StartsWith(tool_result, <<"Successfully logged Set ">>)

\* C10: a log_gym_set query that ends in the success text has made exactly
\* one insert into manual_workouts, and the row inserted is the last of the
\* table.
C10_ExactlyOneInsert ==
  (LogSucceeded /\ pc \in {"synth", "done"}) =>
    /\ Count("insert") = 1
    /\ \A i \in 1..Len(trace) : trace[i].op = "insert" =>
         trace[i].name = "manual_workouts" /\ trace[i].ok
    /\ store.workouts # <<>>
    /\ store.workouts[Len(store.workouts)].exercise_name = tool_inputs[2]

\* A set was logged after both calls of the tool.
C10_Witness == LogSucceeded /\ pc = "done" /\ Count("invoke") = 2 /\ Count("insert") = 1

\* The text of the guard of log_gym_set.
ValidationMsg ==
  <<"Error: Missing or invalid workout parameters. Please check exercise name, weight, reps, and set number.">>

\* A five-field log_gym_set line with a date that parses and an empty
\* exercise name, or a weight, reps or sets field that is not a number or is
\* not positive, the tool being registered.
InvalidLog ==
  /\ IsToolCallLine /\ tool_func = LOG_TOOL /\ Len(tool_inputs) = 5
  /\ IsoOk(tool_inputs[1])
  /\ \/ tool_inputs[2] = <<>>
     \/ ~FloatOk(tool_inputs[3]) \/ ~IntOk(tool_inputs[4]) \/ ~IntOk(tool_inputs[5])
     \/ FloatVal(tool_inputs[3]) <= 0 \/ IntVal(tool_inputs[4]) <= 0 \/ IntVal(tool_inputs[5]) <= 0

\* The execution errors a field of a log_gym_set line can cause before the
\* typed call: a missing positional argument or a failed coercion.
CoercionErrors ==
  {ArityError, <<"could not convert string to float">>, <<"invalid literal for int() with base 10">>}

C12_ExactlyFiveFields ==
  (IsToolCallLine /\ tool_func = LOG_TOOL /\ Len(tool_inputs) # 5) =>
    /\ ~\E i \in 1..Len(trace) : trace[i].op = "insert" /\ trace[i].ok
    /\ pc = "done" => StartsWith(reply, ExecError(<<>>))

\* The tool calls of the query made with no argument.
BareReportCalls ==
  {i \in 1..Len(trace) : trace[i].op = "invoke" /\ trace[i].name = REPORT_TOOL /\ trace[i].args = <<>>}

\* The three tables in the order get_readiness_report queries them.
ReportTables == <<"oura_sleep", "oura_activity", "manual_workouts">>

\* C13: get_readiness_report called with no arguments queries oura_sleep,
\* oura_activity and manual_workouts, each with the bounds today - 3 and
\* today, and both bounds are inclusive: the report returned holds a line for
\* every sleep record of today - 3 .. today, those of the two end days
\* included, and for no other sleep record.
C13_DefaultWindow ==
  /\ \A i \in BareReportCalls : \A k \in 1..3 :
       (i + k <= Len(trace) /\ trace[i + k].op = "select" /\ InvokeBefore(i + k) = i) =>
         /\ trace[i + k].name = ReportTables[k]
         /\ trace[i + k].lo = Today - 3
         /\ trace[i + k].hi = Today
  /\ \A i \in BareReportCalls : i + 1 <= Len(trace) /\ trace[i + 1].op = "select"
  /\ (/\ pc \in {"call2", "synth"} /\ tool_name = <<REPORT_TOOL>> /\ Clean(tool_inputs) = <<>>
      /\ tool_inputs = <<>> /\ \A i \in 1..Len(trace) : trace[i].ok) =>
       /\ Count("select") \in {3, 6}
       /\ StartsWith(tool_result, ReportHeader([start |-> Today - 3, end |-> Today]))
       /\ \A r \in store.sleep :
            Contains(tool_result, <<" - ">> \o IsoFormat(r.day) \o <<": Score ">>)
              <=> (Today - 3 <= r.day /\ r.day <= Today)

\* A report asked with no argument held the sleep records of today - 3 and
\* of today.
C13_Witness ==
  /\ pc = "synth" /\ tool_name = <<REPORT_TOOL>> /\ tool_inputs = <<>>
  /\ Count("select") = 6
  /\ \E r \in store.sleep : r.day = Today - 3
  /\ \E r \in store.sleep : r.day = Today
  /\ \E r \in store.sleep : r.day < Today - 3

\* The store calls of get_readiness_report calls one of whose two dates is
\* missing or does not parse.
DefaultedSelects ==
  {i \in 1..Len(trace) :
     /\ trace[i].op = "select" /\ trace[InvokeBefore(i)].name = REPORT_TOOL
     /\ LET a == trace[InvokeBefore(i)].args
        IN  Len(a) < 2 \/ ~IsoOk(a[1].s) \/ ~IsoOk(a[2].s)}

\* C14 (as stated): whenever a date argument of get_readiness_report is
\* missing or unparseable, the window queried is [today - 3, today].
C14_BadDateGivesDefaultWindow ==
  \A i \in DefaultedSelects : trace[i].ok => trace[i].lo = Today - 3 /\ trace[i].hi = Today

\* C14 (amended): get_readiness_report never fails on its date arguments, it
\* always goes on to query the store, and each date is defaulted on its own:
\* a missing or unparseable end becomes today, a missing or unparseable start
\* becomes 3 days before the end used, and a date that parses is kept.  The
\* window is [today - 3, today] only when neither date is usable.
C14_DatesDefaultSeparately ==
  /\ \A i \in DefaultedSelects :
       LET a == trace[InvokeBefore(i)].args
           endOk == Len(a) >= 2 /\ IsoOk(a[2].s)
           startOk == Len(a) >= 1 /\ IsoOk(a[1].s)
       IN  /\ trace[i].hi = (IF endOk THEN FromIso(a[2].s) ELSE Today)
           /\ trace[i].lo = (IF startOk THEN FromIso(a[1].s) ELSE trace[i].hi - 3)
           /\ (~startOk /\ ~endOk) => (trace[i].lo = Today - 3 /\ trace[i].hi = Today)
  /\ \A i \in 1..Len(trace) :
       (trace[i].op = "invoke" /\ trace[i].name = REPORT_TOOL) =>
         i + 1 <= Len(trace) /\ trace[i + 1].op = "select"
  /\ (pc \in {"call2", "synth"} /\ tool_name = <<REPORT_TOOL>>) =>
       tool_result # <<>> /\ ~Contains(tool_result, BadIso)

\* A report was queried with an unparseable start and a usable end other
\* than today.
C14_Witness ==
  \E i \in DefaultedSelects :
    LET a == trace[InvokeBefore(i)].args
    IN  /\ trace[i].ok /\ trace[i].name = "manual_workouts"
        /\ Len(a) = 2 /\ a[1].s # <<>> /\ ~IsoOk(a[1].s) /\ IsoOk(a[2].s)
        /\ trace[i].hi # Today /\ trace[i].lo = trace[i].hi - 3

\* The number of places where sub occurs in s.
Occurrences(s, sub) ==
  Cardinality({i \in 1..(Len(s) - Len(sub) + 1) : SubSeq(s, i, i + Len(sub) - 1) = sub})

\* get_readiness_report has just returned a structured report.
ReportReturned ==
  /\ pc \in {"call2", "synth"} /\ tool_name = <<REPORT_TOOL>>
  /\ \A i \in 1..Len(trace) : trace[i].ok
  /\ tool_result # <<>> /\ tool_result[1] = "--- HEALTH READINESS REPORT ("

\* The workout records of the window of the last report.
WindowWorkouts ==
  LET sel == trace[Len(trace)]
  IN  {store.workouts[i] : i \in {j \in 1..Len(store.workouts) :
         sel.lo <= store.workouts[j].workout_date /\ store.workouts[j].workout_date <= sel.hi}}

TitlesAt(titles) == {i \in 1..Len(tool_result) : tool_result[i] \in titles}

\* C16: a structured report holds exactly three section titles, of sleep,
\* of activity and of workouts in this order after the header; the section
\* of a table whose query returned no record is the fixed "No data
\* available" line, and that of a table with records is not.
C16_ThreeSections ==
  ReportReturned =>
    LET sel == trace[Len(trace)]
        S == TitlesAt({"\nSLEEP SUMMARY:\n", "\nSLEEP SUMMARY: No data available\n"})
        A == TitlesAt({"\nACTIVITY SUMMARY:\n", "\nACTIVITY SUMMARY: No data available\n"})
        W == TitlesAt({"\nRECENT WORKOUTS:\n", "\nRECENT WORKOUTS: No data available\n"})
    IN  /\ Cardinality(S) = 1 /\ Cardinality(A) = 1 /\ Cardinality(W) = 1
        /\ \A i \in S, j \in A, k \in W : 4 < i /\ i < j /\ j < k
        /\ Contains(tool_result, <<"\nSLEEP SUMMARY: No data available\n">>)
             <=> {r \in store.sleep : sel.lo <= r.day /\ r.day <= sel.hi} = {}
        /\ Contains(tool_result, <<"\nACTIVITY SUMMARY: No data available\n">>)
             <=> {r \in store.activity : sel.lo <= r.day /\ r.day <= sel.hi} = {}
        /\ Contains(tool_result, <<"\nRECENT WORKOUTS: No data available\n">>)
             <=> WindowWorkouts = {}

\* A report with no sleep and no activity record but with a workout.
C16_Witness ==
  /\ ReportReturned /\ pc = "synth"
  /\ Contains(tool_result, <<"\nSLEEP SUMMARY: No data available\n", "\nACTIVITY SUMMARY: No data available\n",
                             "\nRECENT WORKOUTS:\n">>)

\* The openings of the error texts the tools return.
ToolErrorOpenings ==
  {"Error while fetching sleep data: ", "Error while fetching activity data: ",
   "An internal error occurred while trying to log the workout.",
   "Error: Failed to insert set. Details: ",
   "An error occurred while accessing the aggregated data for the report: "}

\* C17: process_query never raises to its caller, whatever the decision,
\* the arguments and the failures of the tools and of the store.  A tool
\* that returned has returned a non-empty text, which is an error text
\* when its store call failed; a tool branch that ends without a synthesis
\* call ends in a non-empty reply: "tool not found" or "Sorry, I ran into
\* an error ...".
C17_NeverRaises ==
  /\ ~raised
  /\ pc \in {"call2", "synth"} =>
       /\ tool_result # <<>>
       /\ ~trace[Len(trace)].ok => tool_result[1] \in ToolErrorOpenings
  /\ (pc = "done" /\ Answered /\ StartsWith(decision, <<TOOL_CALL>>) /\ Count("llm") = 1) =>
       \/ StartsWith(reply, ExecError(<<>>)) /\ Len(reply) > 1
       \/ Len(parts) >= 2 /\ reply = NotFoundMsg(tool_name)

\* A query in which a store call failed inside the tool and a later call of
\* the tool raised at its arguments.
C17_Witness ==
  /\ pc = "done" /\ reply = ExecError(ArityError)
  /\ \E i \in 1..Len(trace) : trace[i].op = "select" /\ ~trace[i].ok

\* A single-date tool was asked for a date that parses, and the store
\* answered every call.
DateQueried(tool) ==
  /\ IsToolCallLine /\ tool_func = tool /\ Len(tool_inputs) = 1 /\ IsoOk(tool_inputs[1])
  /\ \A i \in 1..Len(trace) : trace[i].ok

\* C18 (as stated): when get_oura_sleep_score or get_oura_activity_steps
\* finds no record for a date that parses, its result is the "No ... data
\* found for <date>." text, and the query goes on to the synthesis call.
C18_NoDataIsInformative ==
  /\ (/\ pc \in {"call2", "synth"} /\ DateQueried(STEPS_TOOL)
      /\ ~\E r \in store.activity : r.day = FromIso(tool_inputs[1])) =>
       tool_result = <<"No activity data found for ">> \o tool_inputs[1] \o <<".">>
  /\ (/\ pc \in {"call2", "synth"} /\ DateQueried(SLEEP_TOOL)
      /\ ~\E r \in store.sleep : r.day = FromIso(tool_inputs[1])) =>
       tool_result = <<"No Oura sleep data found for ">> \o tool_inputs[1] \o <<".">>
  /\ (/\ pc = "done" /\ (DateQueried(STEPS_TOOL) \/ DateQueried(SLEEP_TOOL))
      /\ Count("invoke") = 2) => Count("llm") = 2

\* C19 (as stated): the sleep data get_oura_sleep_score reports for a date
\* that parses are those of the stored record of that date.
C19_SleepScoreOfRequestedDay ==
  (/\ pc \in {"call2", "synth"} /\ DateQueried(SLEEP_TOOL)
   /\ StartsWith(tool_result, <<"Sleep data for ">>)) =>
    \E r \in store.sleep :
      /\ r.day = FromIso(tool_inputs[1])
      /\ Contains(tool_result, <<"\n- Score: ">> \o OptStr(r.score) \o <<"\n- Efficiency: ">>)

\* C20: a query makes at most two completion calls.  The decision call is
\* the first thing it does and is made once; nothing follows a decision
\* call that failed.  The synthesis call is made at most once, after a tool
\* has been invoked and has returned its result, and nothing follows it:
\* no completion call is repeated.
C20_TwoCompletionCalls ==
  /\ Count("llm") <= 2
  /\ trace # <<>> =>
       /\ trace[1].op = "llm" /\ trace[1].name = "decision"
       /\ ~trace[1].ok => Len(trace) = 1
  /\ \A i \in 2..Len(trace) : trace[i].op = "llm" =>
       /\ trace[i].name = "synthesis"
       /\ i = Len(trace) /\ pc = "done"
       /\ trace[i - 1].op # "llm"
       /\ \E j \in 2..(i - 1) : trace[j].op = "invoke"
       /\ tool_result # <<>>
       /\ trace[i].args = <<PyStr(format_prompt)>>
  /\ pc = "synth" => Count("llm") = 1 /\ Count("invoke") >= 1

\* A query made its two completion calls around the calls of a tool that
\* read the store.
C20_Witness ==
  /\ pc = "done" /\ Count("llm") = 2 /\ Count("invoke") = 2 /\ Count("select") >= 2
  /\ trace[Len(trace)].name = "synthesis" /\ trace[Len(trace)].ok

\* The query found no completion client, or its decision call failed.
ServiceUnavailable == pc = "done" /\ (trace = <<>> \/ ~trace[1].ok)

\* C21: when the completion client was never created, or the decision call
\* fails, the reply is a fixed message ("AI model is not running. Please
\* start Ollama." or "Sorry, I encountered a critical error: <e>"), no tool
\* is invoked, the store is not called, and the completion service is
\* called at most once: the failed call is not made again.
C21_ServiceUnavailable ==
  ServiceUnavailable =>
    /\ ~raised
    /\ reply = (IF llm THEN CriticalError(LlmDown) ELSE NotRunningMsg)
    /\ Count("invoke") = 0
    /\ Count("select") + Count("insert") = 0
    /\ Count("llm") = (IF llm THEN 1 ELSE 0)
    /\ tool_result = <<>> /\ decision = <<>>

\* The decision call failed while the four tools were registered and the
\* store held records.
C21_Witness ==
  /\ ServiceUnavailable /\ llm /\ Len(trace) = 1
  /\ Len(tools_dict) = 4 /\ store.workouts # <<>>
  /\ StartsWith(reply, <<"Sorry, I encountered a critical error: ">>)

\* The description block of the four tools, in the order of their
\* registration.
FullToolBlock ==
  <<"- ", "get_oura_sleep_score", ": ",
    "Retrieves the Oura sleep score and details for a specific date (YYYY-MM-DD).", "\n",
    "- ", "get_oura_activity_steps", ": ",
    "Retrieves total steps and active calories for a specific date (YYYY-MM-DD).", "\n",
    "- ", "log_gym_set", ": ",
    "Logs a single set of a gym workout. Input requires date (YYYY-MM-DD), exercise name (text), weight (float), repetitions (int), and set number (int).", "\n",
    "- ", "get_readiness_report", ": ",
    "Gathers a summary of recent sleep, steps, and maximal lifts for training advice.">>

\* C22: the decision prompt of every query, the first as well as a later
\* one, holds between "Available tools:" and "Today's date:" one line
\* "- <name>: <first line of the description>" per registered tool, in the
\* order of registration; the block is the same whatever earlier queries
\* did.
C22_ToolBlockStable ==
  \A i \in 1..Len(trace) :
    (trace[i].op = "llm" /\ trace[i].name = "decision") =>
      LET prompt == trace[i].args[1].s
          block == IF supabase_available THEN FullToolBlock ELSE <<>>
      IN  /\ SubSeq(prompt, 2, Len(block) + 2) = block \o <<"\nToday's date: ">>
          /\ Occurrences(prompt, <<"- ">>) = Len(tools_dict)

\* A second query was put after an earlier query had logged a set.
C22_Witness ==
  /\ queries = 2 /\ pc = "done" /\ Answered /\ Len(tools_dict) = 4
  /\ Len(store.workouts) \in {1, Len(SampleStore.workouts) + 1}

\* The calls of the tool made so far in the query.
Invokes == {i \in 1..Len(trace) : trace[i].op = "invoke"}

\* C23 (as stated): the call whose result is used, of a tool other than
\* log_gym_set, gets exactly the non-empty trimmed fields as arguments, in
\* order; and a line whose non-empty fields fit the tool is not refused for
\* its empty fields.
C23_EmptyFieldsDropped ==
  (IsToolCallLine /\ tool_func \notin {NoTool, LOG_TOOL}) =>
    /\ Cardinality(Invokes) = 2 =>
         LET last == CHOOSE i \in Invokes : \A j \in Invokes : j <= i
         IN  trace[last].args = AsStrs(Clean(tool_inputs))
    /\ (pc = "done" /\ Cardinality(Invokes) = 1) => reply # ExecError(ArityError)

\* C24: the transcript only grows at its end, by one entry per step; its
\* entries alternate user, assistant, starting with user; between two
\* inputs it holds as many assistant entries as user entries, and while an
\* input is handled exactly one user entry more, which the handler answers
\* with one assistant entry on each of its branches.
C24_TranscriptAppendOnly ==
  [][/\ Len(messages') \in {Len(messages), Len(messages) + 1}
     /\ SubSeq(messages', 1, Len(messages)) = messages
     /\ \A i \in 1..Len(messages') :
          messages'[i].role = (IF i % 2 = 1 THEN "user" ELSE "assistant")
     /\ Len(messages') % 2 = (IF chat_pc' = "idle" THEN 0 ELSE 1)
     /\ (chat_pc = "idle" /\ chat_pc' # "idle") =>
          Len(messages') = Len(messages) + 1 /\ messages'[Len(messages')].content \in UserInputs
     /\ (chat_pc # "idle" /\ chat_pc' = "idle") =>
          /\ Len(messages') = Len(messages) + 1
          /\ messages'[Len(messages')].content = assistant_response
          /\ assistant_response # InitialResponse]_vars

\* A session answered one input on each branch of the handler that the
\* configuration allows: process_query returned, and process_query raised.
C24_Witness ==
  /\ chat_pc = "idle" /\ Len(messages) = 4
  /\ messages[2].content \in ProcessQueryReplies
  /\ messages[4].content = ProcessingError(<<"[Errno 32] Broken pipe">>)

\* C25: no step of process_query, on any of its branches, changes
\* tools_dict or USER_PROFILE: after every step both are what they were
\* before it, so after every query they are what start-up made them.
C25_RegistryAndProfileFrozen ==
  [][/\ tools_dict' = tools_dict
     /\ USER_PROFILE' = USER_PROFILE
     /\ tools_dict' = Registry(supabase_available)
     /\ USER_PROFILE' = LoadProfile(profile_doc)]_vars

\* A second query ended in the error reply of the tool branch after an
\* earlier query had logged a set, with the tools registered and a profile
\* loaded.
C25_Witness ==
  /\ queries = 2 /\ pc = "done" /\ Count("invoke") >= 1
  /\ StartsWith(reply, ExecError(<<>>))
  /\ Len(store.workouts) \in {1, Len(SampleStore.workouts) + 1}
  /\ Len(tools_dict) = 4 /\ DOMAIN USER_PROFILE = ProfileKeys

\* The places of the log that hold a call op of the kind.
PolarCalls(op, kind) ==
  {i \in 1..Len(polar_log) : polar_log[i].op = op /\ polar_log[i].kind = kind}

\* The run is over: it reached its end or an exception left it.
PolarOver == polar_pc[2] \in {"end", "exit", "crashed"}

\* C26 (as stated): for each kind whose transaction was created with an id,
\* the commit is attempted at most once, after every summary fetch and after
\* the upsert attempt of that kind, and when the run is over it has been
\* attempted exactly once.
C26_CommitOnceAfterWork ==
  \A kind \in {"exercise", "activity"} :
    (\E i \in PolarCalls("create", kind) : polar_log[i].ok) =>
      /\ Cardinality(PolarCalls("commit", kind)) <= 1
      /\ \A c \in PolarCalls("commit", kind) :
           \A j \in PolarCalls("fetch", kind) \cup PolarCalls("upsert", kind)
                    \cup PolarCalls("list", kind) : j < c
      /\ (PolarOver \/ polar_pc[1] # kind) => Cardinality(PolarCalls("commit", kind)) = 1

\* The first page of the server that names no further page.
FirstLast == CHOOSE i \in 1..Len(server) : Last(server[i]) /\ \A j \in 1..(i - 1) : ~Last(server[j])

\* The records of pages 1..n that were read, in page order.
RECURSIVE Collected(_)
Collected(n) ==
  IF n = 0 THEN <<>>
  ELSE Collected(n - 1) \o (IF server[n].kind = "ok" THEN Records(n, server[n]) ELSE <<>>)

\* C27, the state part: pages are requested one at a time in the order the
\* tokens give, never past the first page without a next_token or with a
\* failure; what is collected is the concatenation, in page order, of the
\* records of the pages read so far; what is returned is that of all pages
\* up to the first last one, made with exactly that many requests.
C27_PagesInOrder ==
  /\ page_count <= FirstLast
  /\ all_data = Collected(page_count)
  /\ url = (IF page_count < FirstLast THEN page_count + 1 ELSE 0)
  /\ oura_result # <<>> =>
       page_count = FirstLast /\ oura_result = <<Collected(FirstLast)>>

\* C27: the state part always holds, and against a server that ends the
\* function returns.
C27_Pagination == []C27_PagesInOrder /\ <>(oura_result # <<>>)

\* C27 witness: the function has returned after its third or a later page
\* failed, with the records of the first page and of the page before the
\* failure in what it returned.
C27_Witness ==
  /\ oura_result # <<>>
  /\ page_count >= 3
  /\ server[page_count].kind # "ok"
  /\ Len(oura_result[1]) >= 2
  /\ oura_result[1][1][1] = 1
  /\ oura_result[1][Len(oura_result[1])][1] = page_count - 1
====
